---- MODULE Spec2Model ----
(***************************************************************************)
(* Fraud-intelligence ledger (FraudService) and its durable store          *)
(* (S3Service), with the /fraud routes that call them.                     *)
(*                                                                         *)
(* Node.js runs one handler at a time: a step of the model is one run of   *)
(* JavaScript between two points where control returns to the event loop   *)
(* waiting for S3.  A chain of awaits on already-settled promises runs in  *)
(* the same turn, so it is part of the same step.                          *)
(*                                                                         *)
(* ret is what FraudService returned in the step just taken (the value its *)
(* promise settles with), or the refusal of the route when the route did   *)
(* not call the service.  The routes do not await the service, so this is  *)
(* not the HTTP body.                                                      *)
(***************************************************************************)
EXTENDS Integers, Sequences, FiniteSets, TLC

\* ---------------------------------------------------------------- bounds
MaxClock == 1        \* Date.now() takes the values 0..MaxClock
NumRnd == 2          \* Math.random() suffixes 0..NumRnd-1
MaxSubmits == 2      \* submissions accepted into the working set
MaxExt == 1          \* records other writers put into the bucket
ListLimit == 1       \* MaxKeys of one listing (1000 in loadFromS3), scaled
MaxRecords == 4      \* records of the working sets Analytics is applied to

\* ------------------------------------------------------------ value sets
NoVal == ""          \* a missing (undefined) or empty field: falsy in JS
NoId == -1000        \* "no fraudId in the response"

Readers == {"r1", "r2"}
Submitters == {"s1", "s2"}
Ctor == "ctor"
Loaders == Readers \cup {Ctor}

validSeverities == {"low", "medium", "high", "critical"}

\* A submission that passes every validation.
GoodRequests ==
  { [bankId |-> "A", deviceIdHash |-> "h1", accountIdHash |-> "h1",
     transactionPatternHash |-> "h1", fraudType |-> "phishing",
     timestamp |-> 1, severity |-> "high"],
    [bankId |-> "A", deviceIdHash |-> "h1", accountIdHash |-> "h2",
     transactionPatternHash |-> "h2", fraudType |-> "card_fraud",
     timestamp |-> 2, severity |-> "low"] }

BaseRequest == CHOOSE q \in GoodRequests : q.severity = "low"

\* What another bank's instance wrote into the shared bucket.
ExtRequest ==
  [bankId |-> "B", deviceIdHash |-> "h2", accountIdHash |-> "h2",
   transactionPatternHash |-> "h1", fraudType |-> "card_fraud",
   timestamp |-> 3, severity |-> "critical"]

\* The same submission with one required field missing, or with a
\* severity outside the four allowed values.  timestamp 0 models the
\* missing timestamp.
BadRequests ==
  { [BaseRequest EXCEPT !.bankId = NoVal],
    [BaseRequest EXCEPT !.deviceIdHash = NoVal],
    [BaseRequest EXCEPT !.accountIdHash = NoVal],
    [BaseRequest EXCEPT !.transactionPatternHash = NoVal],
    [BaseRequest EXCEPT !.fraudType = NoVal],
    [BaseRequest EXCEPT !.timestamp = 0],
    [BaseRequest EXCEPT !.severity = NoVal],
    [BaseRequest EXCEPT !.severity = "LOW"] }

SubmitRequests == GoodRequests \cup BadRequests

\* The inputs of the specification that explores every interleaving.
FewSubmitRequests == {BaseRequest}

QueryRequests ==
  [deviceIdHash : {"h2", NoVal},
   accountIdHash : {"h2", NoVal},
   transactionPatternHash : {"h1", NoVal}]

NoRequest == [deviceIdHash |-> NoVal, accountIdHash |-> NoVal,
              transactionPatternHash |-> NoVal]

FewQueryRequests == {[NoRequest EXCEPT !.accountIdHash = "h2"]}

ExtIds == { 0 - k : k \in 1..MaxExt }

VARIABLES
  fraudRecords,       \* FraudService.fraudRecords: the working set
  s3SyncInProgress,   \* FraudService.s3SyncInProgress: the resync guard
  store,              \* the bucket: the stored records, one per key
  now,                \* Date.now()
  pc,                 \* where each call is
  op,                 \* reader: "query", "analytics" or "all"
  req,                \* reader: the query request of the call in flight
  listed,             \* loader: the keys its ListObjectsV2 call returned
  rec,                \* submitter: the record whose upload is in flight
  unseen,             \* reader: the identifiers that were in the store but not
                      \* in the working set when it was called
  ret,                \* what the step just taken returned to its caller
  result              \* analysis route: the verdict and the request of the
                      \* call whose upload is in flight

vars == <<fraudRecords, s3SyncInProgress, store, now, pc, op, req, listed,
          rec, unseen, ret, result>>

\* ------------------------------------------------------------- helpers
Ids(ws) == { ws[i].fraudId : i \in 1..Len(ws) }

StoreIds == { x.fraudId : x \in store }

Min(S) == CHOOSE m \in S : \A x \in S : m <= x

RECURSIVE SortedSeq(_)
SortedSeq(S) ==
  IF S = {} THEN <<>> ELSE <<Min(S)>> \o SortedSeq(S \ {Min(S)})

Take(s, n) == IF Len(s) <= n THEN s ELSE SubSeq(s, 1, n)


\* ------------------------------------------------------------ S3Service
\* uploadFraudRecord: PutObject under a key made of the fraudId; a second
\* put under the same key replaces the first.
Put(st, r) == { x \in st : x.fraudId # r.fraudId } \cup {r}

\* listFraudRecords, first call: ListObjectsV2 with MaxKeys = limit returns
\* the first keys in key order.
ListKeysOf(st, limit) == Take(SortedSeq({ x.fraudId : x \in st }), limit)

\* listFraudRecords, the GetObject calls: one parsed record per listed key.
GetRecords(st, keys) ==
  [i \in 1..Len(keys) |-> CHOOSE x \in st : x.fraudId = keys[i]]

\* ---------------------------------------------------------- FraudService
\* fraudId = `fraud-${Date.now()}-${Math.random()...}`: ordered by the
\* clock value first and by the random suffix second.
FraudId(t, r) == t * NumRnd + r

FieldsPresent(q) ==
  /\ q.bankId # NoVal
  /\ q.deviceIdHash # NoVal
  /\ q.accountIdHash # NoVal
  /\ q.transactionPatternHash # NoVal
  /\ q.fraudType # NoVal
  /\ q.timestamp # 0
  /\ q.severity # NoVal

\* Mutant of RouteSubmitOk: the severity check left out.
RouteSubmitOkNoSeverity(q) == FieldsPresent(q)

\* router.post('/submit'): the two checks made before the service is called.
RouteSubmitOk(q) == FieldsPresent(q) /\ q.severity \in validSeverities

\* submitFraud: its own check of the request.
ServiceSubmitOk(q) == FieldsPresent(q)

\* Mutant of RouteQueryOk: the check of the hashes left out.
RouteQueryOkAlways(q) == TRUE

\* router.post('/query'): at least one of the three hashes is truthy.
RouteQueryOk(q) ==
  ~(q.deviceIdHash = NoVal /\ q.accountIdHash = NoVal
    /\ q.transactionPatternHash = NoVal)

NewRecord(q, id, t) ==
  [fraudId |-> id, bankId |-> q.bankId, deviceIdHash |-> q.deviceIdHash,
   accountIdHash |-> q.accountIdHash,
   transactionPatternHash |-> q.transactionPatternHash,
   fraudType |-> q.fraudType, timestamp |-> q.timestamp,
   severity |-> q.severity, submittedAt |-> t]

NoRec == NewRecord(NoRequest @@ [bankId |-> NoVal, fraudType |-> NoVal,
                                 timestamp |-> 0, severity |-> NoVal], NoId, 0)

\* The request fields a record was made from.
RequestOf(r) ==
  [bankId |-> r.bankId, deviceIdHash |-> r.deviceIdHash,
   accountIdHash |-> r.accountIdHash,
   transactionPatternHash |-> r.transactionPatternHash,
   fraudType |-> r.fraudType, timestamp |-> r.timestamp,
   severity |-> r.severity]

\* Mutants of Merge: push without the duplicate filter; assign instead of
\* merging; unshift instead of push.
MergeAll(ws, records) == ws \o records

MergeReplace(ws, records) == records

MergeFront(ws, records) ==
  SelectSeq(records, LAMBDA r : r.fraudId \notin Ids(ws)) \o ws

\* Mutant of Merge: a listing that returned records becomes the working set.
MergeStoreWins(ws, records) == IF Len(records) > 0 THEN records ELSE ws

\* loadFromS3, after the listing has returned: merge, avoiding duplicates.
Merge(ws, records) ==
  IF Len(records) > 0
    THEN ws \o SelectSeq(records, LAMBDA r : r.fraudId \notin Ids(ws))
    ELSE ws

\* Mutant of AccountMatch: the account hash compared with the wrong field.
AccountMatchWrongField(q, r) ==
  q.accountIdHash # NoVal /\ r.deviceIdHash = q.accountIdHash

\* queryFraud: the three comparisons made on one record.
DeviceMatch(q, r) ==
  q.deviceIdHash # NoVal /\ r.deviceIdHash = q.deviceIdHash
AccountMatch(q, r) ==
  q.accountIdHash # NoVal /\ r.accountIdHash = q.accountIdHash
PatternMatch(q, r) ==
  q.transactionPatternHash # NoVal
  /\ r.transactionPatternHash = q.transactionPatternHash

\* Mutant of RecordMatches: every hash has to match.
RecordMatchesAll(q, r) ==
  DeviceMatch(q, r) /\ AccountMatch(q, r) /\ PatternMatch(q, r)

RecordMatches(q, r) ==
  DeviceMatch(q, r) \/ AccountMatch(q, r) \/ PatternMatch(q, r)

\* queryFraud, after the sync: one scan of the working set.
QueryScan(ws, q) ==
  LET matches ==
        [deviceIdHash |-> \E i \in 1..Len(ws) : DeviceMatch(q, ws[i]),
         accountIdHash |-> \E i \in 1..Len(ws) : AccountMatch(q, ws[i]),
         transactionPatternHash |->
           \E i \in 1..Len(ws) : PatternMatch(q, ws[i])]
      matchingRecords == SelectSeq(ws, LAMBDA r : RecordMatches(q, r))
      found == matches.deviceIdHash \/ matches.accountIdHash
               \/ matches.transactionPatternHash
  IN [found |-> found, matches |-> matches,
      hasRecords |-> found,
      fraudRecords |-> IF found THEN matchingRecords ELSE <<>>]

NoQueryResult ==
  [found |-> FALSE,
   matches |-> [deviceIdHash |-> FALSE, accountIdHash |-> FALSE,
                transactionPatternHash |-> FALSE],
   hasRecords |-> FALSE, fraudRecords |-> <<>>]


\* getAnalytics: the record a stable descending sort by event timestamp
\* puts first, i.e. the earliest-inserted record with the latest timestamp.
LastRecord(ws) ==
  LET latest == CHOOSE i \in 1..Len(ws) :
                  \A j \in 1..Len(ws) : ws[j].timestamp <= ws[i].timestamp
      first == Min({ i \in 1..Len(ws) : ws[i].timestamp = ws[latest].timestamp })
  IN ws[first]

Pad2(n) == IF n < 10 THEN "0" \o ToString(n) ELSE ToString(n)

\* toLocaleDateString('en-US', 2-digit month, 2-digit day, numeric year):
\* event timestamp k is the k-th day after 28 November 2025.
FormatDate(t) ==
  LET d == 28 + t
      mm == IF d <= 30 THEN 11 ELSE 12
      dd == IF d <= 30 THEN d ELSE d - 30
  IN Pad2(mm) \o "/" \o Pad2(dd) \o "/" \o ToString(2025)

CountBy(ws, field, v) == Cardinality({ i \in 1..Len(ws) : ws[i][field] = v })

FirstIndex(ws, field, v) == Min({ i \in 1..Len(ws) : ws[i][field] = v })

\* The counters are properties of an object literal ({}), which inherits
\* the members of Object.prototype: reading counts["constructor"] before it
\* was ever set gives the function Object, not undefined.
InheritedKeys == {"constructor"}

InheritedText == "function Object() { [native code] }"

\* A property name that is a canonical array index, and its value; -1 for
\* every other name.
ArrayIndex(k) == IF k = "419" THEN 419 ELSE 0 - 1

RECURSIVE Ones(_)
Ones(n) == IF n = 0 THEN "" ELSE "1" \o Ones(n - 1)

\* counts[k] = (counts[k] || 0) + 1, done n times from {}: the number n,
\* or, for an inherited name, the text of the function followed by n ones
\* (function + 1 is a string concatenation, and so is string + 1).
JsCount(k, n) ==
  IF k \in InheritedKeys
    THEN [isNumber |-> FALSE, number |-> 0, string |-> InheritedText \o Ones(n)]
    ELSE [isNumber |-> TRUE, number |-> n, string |-> ""]

\* The counting loops of getAnalytics over one field.
CountsOf(ws, field) ==
  [k \in { ws[i][field] : i \in 1..Len(ws) } |->
     JsCount(k, CountBy(ws, field, k))]

\* Object.entries(counts): array-index names first in ascending numeric
\* order, then the other names in the order they were first set.
EntryBefore(ws, field, a, b) ==
  IF ArrayIndex(a) >= 0 /\ ArrayIndex(b) >= 0 THEN ArrayIndex(a) < ArrayIndex(b)
  ELSE IF ArrayIndex(a) >= 0 THEN TRUE
  ELSE IF ArrayIndex(b) >= 0 THEN FALSE
  ELSE FirstIndex(ws, field, a) < FirstIndex(ws, field, b)

\* (a, b) => b[1] - a[1] as sort() uses it: NaN counts as +0.
CompareCounts(ca, cb) ==
  IF ca.isNumber /\ cb.isNumber THEN cb.number - ca.number ELSE 0

\* Array.prototype.sort keeps its promise (a stable sort) only for a
\* consistent comparator: "equal" and "before" have to be transitive.
ConsistentComparator(counts) ==
  \A a, b, c \in DOMAIN counts :
    /\ (CompareCounts(counts[a], counts[b]) = 0
        /\ CompareCounts(counts[b], counts[c]) = 0)
         => CompareCounts(counts[a], counts[c]) = 0
    /\ (CompareCounts(counts[a], counts[b]) < 0
        /\ CompareCounts(counts[b], counts[c]) < 0)
         => CompareCounts(counts[a], counts[c]) < 0

\* Object.entries(fraudTypeCounts).sort((a, b) => b[1] - a[1])[0][0] for a
\* consistent comparator: of the entries no other entry sorts before, the
\* first in entry order.
MostCommon(ws) ==
  LET counts == CountsOf(ws, "fraudType")
      top == { t \in DOMAIN counts :
                 \A u \in DOMAIN counts :
                   CompareCounts(counts[u], counts[t]) >= 0 }
  IN CHOOSE t \in top :
       \A u \in top \ {t} : EntryBefore(ws, "fraudType", t, u)

\* The values mostCommonFraud can take: with a comparator that is not
\* consistent the sort order is implementation-defined, and any entry may
\* come first.
MostCommonChoices(ws) ==
  IF ConsistentComparator(CountsOf(ws, "fraudType"))
    THEN {MostCommon(ws)}
    ELSE { ws[i].fraudType : i \in 1..Len(ws) }

\* getAnalytics, the early return for an empty working set.  <<>> is the
\* empty mapping {}.
NoAnalytics ==
  [lastAttemptedFraud |-> "N/A", mostCommonFraud |-> "N/A",
   lastFraudulentDeviceID |-> "N/A", totalFraudRecords |-> 0,
   fraudByType |-> <<>>, fraudBySeverity |-> <<>>]

\* getAnalytics, the object its catch block returns: the total and the two
\* mappings are not set.
CaughtAnalytics ==
  [lastAttemptedFraud |-> "N/A", mostCommonFraud |-> "N/A",
   lastFraudulentDeviceID |-> "N/A"]

\* getAnalytics, the statements after the early return, one object for
\* each order the sort of the entries can produce.
AnalyticsOfRecords(ws) ==
  { [lastAttemptedFraud |-> FormatDate(LastRecord(ws).timestamp),
     mostCommonFraud |-> mc,
     lastFraudulentDeviceID |-> LastRecord(ws).deviceIdHash,
     totalFraudRecords |-> Len(ws),
     fraudByType |-> CountsOf(ws, "fraudType"),
     fraudBySeverity |-> CountsOf(ws, "severity")] :
    mc \in MostCommonChoices(ws) }

\* Mutant of Analytics: without the early return, sortedRecords[0] is
\* undefined, reading its timestamp throws and the catch block answers.
AnalyticsNoEmptyCase(ws) ==
  IF Len(ws) = 0 THEN {CaughtAnalytics} ELSE AnalyticsOfRecords(ws)

\* getAnalytics, after the sync: the objects it can return.
Analytics(ws) ==
  IF Len(ws) = 0 THEN {NoAnalytics} ELSE AnalyticsOfRecords(ws)

\* --------------------------------------------------------------- strings
UpperCase == "ABCDEFGHIJKLMNOPQRSTUVWXYZ"
LowerCase == "abcdefghijklmnopqrstuvwxyz"

\* The characters of a string.
CharsOf(chars) == { SubSeq(chars, i, i) : i \in 1..Len(chars) }

UpperChars == CharsOf(UpperCase)

LowerOfUpper ==
  [c \in UpperChars |->
     LET i == CHOOSE k \in 1..Len(UpperCase) : SubSeq(UpperCase, k, k) = c
     IN SubSeq(LowerCase, i, i)]

\* String.prototype.toLowerCase, one character.
LowerChar(c) == IF c \in UpperChars THEN LowerOfUpper[c] ELSE c

RECURSIVE toLowerCase(_)
toLowerCase(str) ==
  IF Len(str) = 0 THEN ""
  ELSE LowerChar(SubSeq(str, 1, 1)) \o toLowerCase(SubSeq(str, 2, Len(str)))

\* String.prototype.includes.
includes(str, sub) ==
  \E i \in 1..(Len(str) - Len(sub) + 1) : SubSeq(str, i, i + Len(sub) - 1) = sub

\* ------------------------------------------------------ risk arithmetic
\* Sub-scores and weights are written in hundredths (0.95 is 95, 0.28 is
\* 28), so a weighted sum is in ten-thousandths.  The code adds doubles; the
\* double differs from the exact sum by a rounding error far below one
\* ten-thousandth, of which only the sign can matter: err is -1, 0 or 1.
RoundingErrors == {0 - 1, 0, 1}

One == 10000

\* riskScore >= t for the double behind exact sum u and error sign err.
AtLeast(u, err, t) == u > t \/ (u = t /\ err >= 0)

\* Mutant of Clamp: the sum is returned as it is.
ClampNone(u) == u

\* Math.min(1.0, Math.max(0.0, riskScore)).
Clamp(u) == IF u > One THEN One ELSE IF u < 0 THEN 0 ELSE u

\* The error left after the clamp: 1.0 and 0.0 are exact.
ClampedErr(u, err) ==
  IF u > One \/ (u = One /\ err > 0) \/ u = 0 THEN 0 ELSE err

\* Math.round(riskScore * 100) / 100, in ten-thousandths: halves go up.
Round2(u, err) ==
  IF u % 100 > 50 \/ (u % 100 = 50 /\ err >= 0)
    THEN (u \div 100 + 1) * 100
    ELSE (u \div 100) * 100

\* ------------------------------------------------------ BehaviorAnalyzer
TYPING_SPEED_THRESHOLD_LOW == 180
TYPING_SPEED_THRESHOLD_HIGH == 350
MOUSE_MOVEMENT_THRESHOLD_LOW == 800
MOUSE_MOVEMENT_THRESHOLD_HIGH == 2500
CLICK_PATTERN_VARIANCE_THRESHOLD == 150
NAVIGATION_TIME_THRESHOLD == 20
SENSITIVE_PAGES == {"transfer", "confirmation", "payment", "withdrawal"}

\* The comparisons with THRESHOLD * factor are made on both sides times
\* 100 (factor 0.7 is 70), for the click pattern times 10; the inputs are
\* whole numbers.
analyzeTypingSpeed(typingSpeed) ==
  IF typingSpeed * 100 < TYPING_SPEED_THRESHOLD_LOW * 70 THEN 95
  ELSE IF typingSpeed < TYPING_SPEED_THRESHOLD_LOW THEN 85
  ELSE IF typingSpeed * 100 < TYPING_SPEED_THRESHOLD_LOW * 115 THEN 65
  ELSE IF typingSpeed * 100 < TYPING_SPEED_THRESHOLD_LOW * 130 THEN 35
  ELSE IF typingSpeed * 100 > TYPING_SPEED_THRESHOLD_HIGH * 120 THEN 50
  ELSE IF typingSpeed > TYPING_SPEED_THRESHOLD_HIGH THEN 40
  ELSE 0

analyzeMouseMovement(mouseMovement) ==
  IF mouseMovement * 100 < MOUSE_MOVEMENT_THRESHOLD_LOW * 50 THEN 85
  ELSE IF mouseMovement < MOUSE_MOVEMENT_THRESHOLD_LOW THEN 70
  ELSE IF mouseMovement * 100 < MOUSE_MOVEMENT_THRESHOLD_LOW * 120 THEN 45
  ELSE IF mouseMovement * 100 > MOUSE_MOVEMENT_THRESHOLD_HIGH * 130 THEN 60
  ELSE IF mouseMovement > MOUSE_MOVEMENT_THRESHOLD_HIGH THEN 50
  ELSE 0

RECURSIVE SumSeq(_)
SumSeq(xs) == IF Len(xs) = 0 THEN 0 ELSE Head(xs) + SumSeq(Tail(xs))

\* stdDev > t10 / 10: with n values, sum sm and sum of squares q the
\* variance is (n * q - sm * sm) / (n * n).
StdDevAbove(clickPattern, t10) ==
  LET n == Len(clickPattern)
      sm == SumSeq(clickPattern)
      q == SumSeq([i \in 1..n |-> clickPattern[i] * clickPattern[i]])
  IN (n * q - sm * sm) * 100 > t10 * t10 * n * n

analyzeClickPattern(clickPattern) ==
  IF Len(clickPattern) < 2 THEN 0
  ELSE IF StdDevAbove(clickPattern, CLICK_PATTERN_VARIANCE_THRESHOLD * 15) THEN 90
  ELSE IF StdDevAbove(clickPattern, CLICK_PATTERN_VARIANCE_THRESHOLD * 10) THEN 80
  ELSE IF StdDevAbove(clickPattern, CLICK_PATTERN_VARIANCE_THRESHOLD * 6) THEN 55
  ELSE IF StdDevAbove(clickPattern, CLICK_PATTERN_VARIANCE_THRESHOLD * 4) THEN 30
  ELSE 0

SomePage(pagesVisited, word) ==
  \E i \in 1..Len(pagesVisited) : includes(toLowerCase(pagesVisited[i]), word)

analyzeNavigationTime(navigationTime, pagesVisited) ==
  LET hasSensitivePage ==
        \E w \in SENSITIVE_PAGES : SomePage(pagesVisited, toLowerCase(w))
  IN IF hasSensitivePage /\ navigationTime > NAVIGATION_TIME_THRESHOLD
       THEN IF navigationTime > NAVIGATION_TIME_THRESHOLD * 3 THEN 95
            ELSE IF navigationTime > NAVIGATION_TIME_THRESHOLD * 2 THEN 90
            ELSE IF navigationTime * 100 > NAVIGATION_TIME_THRESHOLD * 150 THEN 75
            ELSE 65
     ELSE IF hasSensitivePage
             /\ navigationTime * 100 > NAVIGATION_TIME_THRESHOLD * 70 THEN 35
     ELSE 0

analyzePageVisits(pagesVisited) ==
  LET hasLogin == SomePage(pagesVisited, "login")
      hasConfirmation == SomePage(pagesVisited, "confirmation")
      hasTransfer == SomePage(pagesVisited, "transfer")
      hasPayment == SomePage(pagesVisited, "payment")
  IN IF (hasTransfer \/ hasConfirmation \/ hasPayment) /\ ~hasLogin THEN 90
     ELSE IF hasConfirmation /\ ~hasTransfer /\ ~hasPayment THEN 65
     ELSE IF (hasTransfer \/ hasConfirmation \/ hasPayment)
             /\ Len(pagesVisited) <= 2 THEN 50
     ELSE 0

\* One factor of a weighted sum: its sub-score, its weight and the flag or
\* reason code pushed when the sub-score is above 0.
Factor(risk, weight, code) == [risk |-> risk, weight |-> weight, code |-> code]

\* riskScore += risk * weight for the factors with risk > 0.
WeightedSum(factors) ==
  SumSeq([i \in 1..Len(factors) |->
            IF factors[i].risk > 0 THEN factors[i].risk * factors[i].weight
            ELSE 0])

\* Mutant of CodesOf: a code is pushed only for a sub-score of 0.5 or more.
CodesOfHighOnly(factors) ==
  LET fired == SelectSeq(factors, LAMBDA f : f.risk >= 50)
  IN [i \in 1..Len(fired) |-> fired[i].code]

\* The codes pushed, in factor order.
CodesOf(factors) ==
  LET fired == SelectSeq(factors, LAMBDA f : f.risk > 0)
  IN [i \in 1..Len(fired) |-> fired[i].code]

BehaviorFactors(request) ==
  << Factor(analyzeTypingSpeed(request.typingSpeed), 28, "typing_slow"),
     Factor(analyzeMouseMovement(request.mouseMovement), 22,
            "unusual_mouse_pattern"),
     Factor(analyzeClickPattern(request.clickPattern), 22,
            "irregular_click_timing"),
     Factor(analyzeNavigationTime(request.navigationTime, request.pagesVisited),
            28, "long_navigation_time"),
     Factor(analyzePageVisits(request.pagesVisited), 12,
            "unusual_page_sequence") >>

\* analyzeBehavior for one sign of the rounding error.  rawScore is the
\* sum before the clamp; intentRiskScore is in ten-thousandths.
analyzeBehavior(request, err) ==
  LET sum == WeightedSum(BehaviorFactors(request))
      e == IF sum = 0 THEN 0 ELSE err
  IN [sessionId |-> request.sessionId,
      rawScore |-> sum,
      intentRiskScore |-> Round2(Clamp(sum), ClampedErr(sum, e)),
      behaviorFlags |-> CodesOf(BehaviorFactors(request))]

\* --------------------------------------------------- TransactionAnalyzer
HIGH_AMOUNT_MULTIPLIER == 3
VERY_HIGH_AMOUNT_MULTIPLIER == 5
HIGH_RISK_SCORE_THRESHOLD == 6000
SUSPICIOUS_SCORE_THRESHOLD == 3000
HIGH_RISK_TRANSACTION_TYPES ==
  {"wire_transfer", "international_transfer", "cryptocurrency", "money_order",
   "cash_advance"}
HIGH_RISK_LOCATIONS == {"offshore", "tax_haven", "sanctioned_country"}

\* ratio >= m with ratio = amount / averageAmount and averageAmount > 0, on
\* whole amounts; m10 is m in tenths.
RatioAtLeast(amount, averageAmount, m10) == amount * 10 >= m10 * averageAmount

analyzeAmount(amount, averageAmount) ==
  IF averageAmount <= 0 THEN 65
  ELSE IF RatioAtLeast(amount, averageAmount, VERY_HIGH_AMOUNT_MULTIPLIER * 10)
    THEN 98
  ELSE IF RatioAtLeast(amount, averageAmount, HIGH_AMOUNT_MULTIPLIER * 10)
    THEN 85
  ELSE IF RatioAtLeast(amount, averageAmount, 20) THEN 65
  ELSE IF RatioAtLeast(amount, averageAmount, 15) THEN 45
  ELSE IF RatioAtLeast(amount, averageAmount, 12) THEN 25
  ELSE 0

\* The reason code analyzeTransaction pushes for an amount risk above 0.
AmountCode(amount, averageAmount) ==
  IF amount > averageAmount * VERY_HIGH_AMOUNT_MULTIPLIER
    THEN "VERY_HIGH_AMOUNT" ELSE "HIGH_AMOUNT"

\* replace(/[_-]/g, '_').
RECURSIVE DashToUnderscore(_)
DashToUnderscore(str) ==
  IF Len(str) = 0 THEN ""
  ELSE (IF SubSeq(str, 1, 1) = "-" THEN "_" ELSE SubSeq(str, 1, 1))
       \o DashToUnderscore(SubSeq(str, 2, Len(str)))

analyzeTransactionType(transactionType) ==
  LET normalizedType == DashToUnderscore(toLowerCase(transactionType))
  IN IF \E type \in HIGH_RISK_TRANSACTION_TYPES : includes(normalizedType, type)
       THEN 85
     ELSE IF includes(normalizedType, "transfer")
             \/ includes(normalizedType, "payment") THEN 45
     ELSE IF Len(normalizedType) > 0 THEN 15
     ELSE 0

analyzeLocation(location) ==
  LET normalizedLocation == toLowerCase(location)
  IN IF \E riskLocation \in HIGH_RISK_LOCATIONS :
          includes(normalizedLocation, riskLocation) THEN 90
     ELSE IF includes(normalizedLocation, "international")
             \/ includes(normalizedLocation, "foreign") THEN 55
     ELSE IF includes(normalizedLocation, "country")
             \/ includes(normalizedLocation, "state")
             \/ includes(normalizedLocation, "abroad") THEN 30
     ELSE 0

Digits == CharsOf("0123456789")

AlnumDash == CharsOf(LowerCase) \cup UpperChars \cup Digits \cup {"-"}

\* deviceId.match(/^[a-z0-9-]+$/i).
IsAlnumDash(str) ==
  /\ Len(str) > 0
  /\ \A i \in 1..Len(str) : SubSeq(str, i, i) \in AlnumDash

\* recipientAccount.match(/^[0-9]{4,}$/).
IsLongNumber(str) ==
  /\ Len(str) >= 4
  /\ \A i \in 1..Len(str) : SubSeq(str, i, i) \in Digits

analyzeDevice(deviceId) ==
  LET lower == toLowerCase(deviceId)
  IN IF includes(lower, "new") \/ includes(lower, "temp") THEN 80
     ELSE IF includes(lower, "unknown") \/ includes(lower, "guest")
             \/ Len(deviceId) < 5 THEN 70
     ELSE IF ~includes(lower, "device-") /\ ~IsAlnumDash(deviceId) THEN 40
     ELSE 0

\* new Date(timestamp): the day it denotes, counted from 28 November 2025
\* as the event timestamps of the ledger are, and its UTC hour; or the
\* invalid date, whose getters return NaN.
InvalidDate == [valid |-> FALSE, date |-> 0, hour |-> 0]

\* getUTCDay (0 is Sunday): 28 November 2025 is a Friday.
getUTCDay(timestamp) == (5 + timestamp.date) % 7

\* Every comparison with NaN is false and nothing throws, so the invalid
\* date falls through to the final return.
analyzeTiming(timestamp) ==
  IF ~timestamp.valid THEN 0
  ELSE IF timestamp.hour >= 1 /\ timestamp.hour < 7 THEN 65
  ELSE IF timestamp.hour >= 22 \/ timestamp.hour < 1 THEN 45
  ELSE IF timestamp.hour >= 7 /\ timestamp.hour < 9 THEN 30
  ELSE IF getUTCDay(timestamp) = 0 \/ getUTCDay(timestamp) = 6 THEN 25
  ELSE 0

\* Mutant of analyzeRecipient: without the tier for short account numbers.
analyzeRecipientNoShortTier(recipientAccount) ==
  LET lower == toLowerCase(recipientAccount)
  IN IF Len(recipientAccount) < 5 \/ includes(lower, "temp")
        \/ includes(lower, "test") THEN 85
     ELSE IF includes(lower, "unknown") \/ includes(lower, "new")
             \/ IsLongNumber(recipientAccount) THEN 60
     ELSE 0

analyzeRecipient(recipientAccount) ==
  LET lower == toLowerCase(recipientAccount)
  IN IF Len(recipientAccount) < 5 \/ includes(lower, "temp")
        \/ includes(lower, "test") THEN 85
     ELSE IF includes(lower, "unknown") \/ includes(lower, "new")
             \/ IsLongNumber(recipientAccount) THEN 60
     ELSE IF Len(recipientAccount) < 8 THEN 35
     ELSE 0

Has(reasonCodes, code) ==
  \E i \in 1..Len(reasonCodes) : reasonCodes[i] = code

\* Mutant of determineAction: the second and third rules in the other
\* order.
determineActionReviewFirst(u, err, reasonCodes) ==
  IF \/ AtLeast(u, err, 8500)
     \/ /\ AtLeast(u, err, 7000)
        /\ (Has(reasonCodes, "VERY_HIGH_AMOUNT")
            \/ Has(reasonCodes, "HIGH_RISK_LOCATION"))
     \/ Len(reasonCodes) >= 4
    THEN "BLOCK"
  ELSE IF \/ AtLeast(u, err, SUSPICIOUS_SCORE_THRESHOLD)
          \/ Len(reasonCodes) >= 2
          \/ AtLeast(u, err, 2500)
    THEN "FLAG_FOR_REVIEW"
  ELSE IF \/ AtLeast(u, err, HIGH_RISK_SCORE_THRESHOLD)
          \/ /\ AtLeast(u, err, 5000)
             /\ (Has(reasonCodes, "HIGH_AMOUNT") \/ Has(reasonCodes, "NEW_DEVICE")
                 \/ Has(reasonCodes, "HIGH_RISK_TRANSACTION_TYPE"))
          \/ Len(reasonCodes) >= 3
    THEN "DELAY_AND_MFA"
  ELSE "APPROVE"

\* determineAction on the clamped, not yet rounded score (u, err).
determineAction(u, err, reasonCodes) ==
  IF \/ AtLeast(u, err, 8500)
     \/ /\ AtLeast(u, err, 7000)
        /\ (Has(reasonCodes, "VERY_HIGH_AMOUNT")
            \/ Has(reasonCodes, "HIGH_RISK_LOCATION"))
     \/ Len(reasonCodes) >= 4
    THEN "BLOCK"
  ELSE IF \/ AtLeast(u, err, HIGH_RISK_SCORE_THRESHOLD)
          \/ /\ AtLeast(u, err, 5000)
             /\ (Has(reasonCodes, "HIGH_AMOUNT") \/ Has(reasonCodes, "NEW_DEVICE")
                 \/ Has(reasonCodes, "HIGH_RISK_TRANSACTION_TYPE"))
          \/ Len(reasonCodes) >= 3
    THEN "DELAY_AND_MFA"
  ELSE IF \/ AtLeast(u, err, SUSPICIOUS_SCORE_THRESHOLD)
          \/ Len(reasonCodes) >= 2
          \/ AtLeast(u, err, 2500)
    THEN "FLAG_FOR_REVIEW"
  ELSE "APPROVE"

TransactionFactors(request) ==
  << Factor(analyzeAmount(request.amount, request.userAverageTransAmount), 32,
            AmountCode(request.amount, request.userAverageTransAmount)),
     Factor(analyzeTransactionType(request.transactionType), 22,
            "HIGH_RISK_TRANSACTION_TYPE"),
     Factor(analyzeLocation(request.location), 18, "HIGH_RISK_LOCATION"),
     Factor(analyzeDevice(request.deviceId), 18, "NEW_DEVICE"),
     Factor(analyzeTiming(request.timestamp), 12, "UNUSUAL_TIMING"),
     Factor(analyzeRecipient(request.recipientAccount), 12, "NEW_RECIPIENT") >>

\* Mutant of PredictionResult: HIGH_RISK from the lower threshold on.
PredictionResultOneThreshold(u, err) ==
  IF AtLeast(u, err, SUSPICIOUS_SCORE_THRESHOLD) THEN "HIGH_RISK"
  ELSE "SAFE"

\* The prediction result for the clamped, not yet rounded score.
PredictionResult(u, err) ==
  IF AtLeast(u, err, HIGH_RISK_SCORE_THRESHOLD) THEN "HIGH_RISK"
  ELSE IF AtLeast(u, err, SUSPICIOUS_SCORE_THRESHOLD) THEN "SUSPICIOUS"
  ELSE "SAFE"

\* analyzeTransaction for one sign of the rounding error.  rawScore is the
\* sum before the clamp; riskScore is in ten-thousandths.
analyzeTransaction(request, err) ==
  LET sum == WeightedSum(TransactionFactors(request))
      u == Clamp(sum)
      e == ClampedErr(sum, IF sum = 0 THEN 0 ELSE err)
      reasonCodes == CodesOf(TransactionFactors(request))
  IN [transactionId |-> request.transactionId,
      rawScore |-> sum,
      predictionResult |-> PredictionResult(u, e),
      riskScore |-> Round2(u, e),
      recommendedAction |-> determineAction(u, e, reasonCodes),
      reasonCodes |-> reasonCodes]

\* ------------------------------------------------------------ fraudUtils
\* hashString: the SHA-256 digest, kept symbolic.
hashString(input) == "sha256(" \o input \o ")"

isBehaviorFraud(response) == response.intentRiskScore >= 7000

isTransactionFraud(response) ==
  response.predictionResult = "HIGH_RISK"
  \/ response.predictionResult = "SUSPICIOUS"

\* The event timestamp of a behavior record is the time of the analysis.
Today == 4

behaviorToFraudRecord(request, response, id, t) ==
  [fraudId |-> id, bankId |-> "default-bank",
   deviceIdHash |-> hashString(request.sessionId),
   accountIdHash |-> hashString(request.userId),
   transactionPatternHash |->
     hashString(ToString([typingSpeed |-> request.typingSpeed,
                          mouseMovement |-> request.mouseMovement,
                          clickPattern |-> request.clickPattern,
                          pagesVisited |-> request.pagesVisited])),
   fraudType |-> "human_intent_fraud",
   timestamp |-> Today,
   severity |-> IF response.intentRiskScore >= 8000 THEN "critical"
                ELSE IF response.intentRiskScore >= 6000 THEN "high"
                ELSE IF response.intentRiskScore >= 4000 THEN "medium"
                ELSE "low",
   submittedAt |-> t]

\* Mutant of transactionToFraudRecord: the severity is bucketed from the
\* score alone, as it is for a behavior verdict.
transactionToFraudRecordByScore(request, response, id, t) ==
  [fraudId |-> id, bankId |-> "default-bank",
   deviceIdHash |-> hashString(request.deviceId),
   accountIdHash |-> hashString(request.userId),
   transactionPatternHash |->
     hashString(ToString([transactionType |-> request.transactionType,
                          amount |-> request.amount,
                          location |-> request.location,
                          recipientAccount |-> request.recipientAccount])),
   fraudType |-> "predictive_scam",
   timestamp |-> request.timestamp.date,
   severity |-> IF response.riskScore >= 8000 THEN "critical"
                ELSE IF response.riskScore >= 6000 THEN "high"
                ELSE IF response.riskScore >= 4000 THEN "medium"
                ELSE "low",
   submittedAt |-> t]

transactionToFraudRecord(request, response, id, t) ==
  [fraudId |-> id, bankId |-> "default-bank",
   deviceIdHash |-> hashString(request.deviceId),
   accountIdHash |-> hashString(request.userId),
   transactionPatternHash |->
     hashString(ToString([transactionType |-> request.transactionType,
                          amount |-> request.amount,
                          location |-> request.location,
                          recipientAccount |-> request.recipientAccount])),
   fraudType |-> "predictive_scam",
   timestamp |-> request.timestamp.date,
   severity |-> IF response.predictionResult = "HIGH_RISK"
                  THEN IF response.riskScore >= 8000 THEN "critical" ELSE "high"
                ELSE IF response.predictionResult = "SUSPICIOUS"
                  THEN IF response.riskScore >= 5000 THEN "high" ELSE "medium"
                ELSE "low",
   submittedAt |-> t]

\* --------------------------------------------------- the analysis routes
Analysts == {"a1"}

\* No analysis result.
NoResult == [rawScore |-> 0]

\* router.post('/analyze'): the checks made on the body.  The model's
\* samples have numbers and arrays where the route asks for them.
BehaviorRouteOk(request) ==
  request.userId # NoVal /\ request.sessionId # NoVal

\* router.post('/predict'): the checks made on the body.
TransactionRouteOk(request) ==
  /\ request.transactionId # NoVal /\ request.userId # NoVal
  /\ request.amount >= 0 /\ request.userAverageTransAmount >= 0
  /\ request.currency # NoVal /\ request.transactionType # NoVal
  /\ request.location # NoVal

\* Mutant of RouteSave: the record goes through the ledger, which appends
\* it to its working set and then uploads it.
RouteSaveThroughLedger(ws, st, r, uploaded) ==
  [fraudRecords |-> Append(ws, r), store |-> IF uploaded THEN Put(st, r) ELSE st]

\* What saving a derived record does to the working set of the ledger and
\* to the bucket: the route uploads with an S3Service of its own.
RouteSave(ws, st, r, uploaded) ==
  [fraudRecords |-> ws, store |-> IF uploaded THEN Put(st, r) ELSE st]

\* ------------------------------------------------------ the last return
NoRet ==
  [kind |-> "none",
   rejected |-> FALSE,       \* refused by the route, service not called
   sreq |-> RequestOf(NoRec), qreq |-> NoRequest,
   success |-> FALSE, fraudId |-> NoId,
   record |-> NoRec,         \* submit: the record that was appended
   uploaded |-> FALSE,       \* submit: the PutObject succeeded
   synced |-> FALSE,         \* read: this call ran a load of its own
   loadFailed |-> FALSE,     \* read: that load ended in a store error
   unseen |-> {},            \* read: identifiers the store had and the working
                             \* set lacked at call time
   before |-> <<>>,          \* read: the working set when the load ended
   scanned |-> <<>>,         \* read: the working set the answer is made from
   query |-> NoQueryResult, analytics |-> NoAnalytics, all |-> <<>>,
   status |-> 0,             \* analysis: the HTTP status of the response
   sample |-> NoResult,      \* analysis: the request body
   result |-> NoResult]      \* analysis: the verdict in the response

\* The answers a read call can make from working set ws.
Answer(o, q, ws) ==
  { [NoRet EXCEPT !.kind = o, !.qreq = q, !.scanned = ws,
                  !.query = IF o = "query" THEN QueryScan(ws, q)
                            ELSE NoQueryResult,
                  !.analytics = a,
                  !.all = IF o = "all" THEN ws ELSE <<>>] :
    a \in IF o = "analytics" THEN Analytics(ws) ELSE {NoAnalytics} }


\* Mutant of SubmitResult: a failed upload fails the submission.
SubmitResultStrict(uploaded, id) ==
  [success |-> uploaded, fraudId |-> IF uploaded THEN id ELSE NoId]

\* submitFraud's return value once the upload has settled: the outcome
\* of the upload is logged and otherwise ignored.
SubmitResult(uploaded, id) == [success |-> TRUE, fraudId |-> id]

\* Mutant of GuardAfterLoad: the guard is cleared on the success path only.
GuardAfterLoadOnSuccess(failed) == failed

\* syncWithS3, the finally block: the guard once loadFromS3 has settled,
\* with or without a store error.
GuardAfterLoad(failed) == FALSE

\* Mutant of SyncSkips: the guard is not looked at.
SyncNeverSkips(inProgress) == FALSE

\* syncWithS3: a call that finds the guard set returns at once.
SyncSkips(inProgress) == inProgress

OwnCount ==
  Cardinality({ i \in 1..Len(fraudRecords) : fraudRecords[i].fraudId \notin ExtIds })

\* ------------------------------------------------------------------ Init
\* The state right after `new FraudService()`: the constructor has called
\* loadFromS3 without touching the guard, and its listing is in flight.
Init ==
  /\ fraudRecords = <<>>
  /\ s3SyncInProgress = FALSE
  /\ store = {}
  /\ now = 0
  /\ pc = [p \in Loaders \cup Submitters \cup Analysts |->
             IF p = Ctor THEN "listing" ELSE "idle"]
  /\ op = [r \in Readers |-> "none"]
  /\ req = [r \in Readers |-> NoRequest]
  /\ listed = [p \in Loaders |-> <<>>]
  /\ rec = [s \in Submitters \cup Analysts |-> NoRec]
  /\ unseen = [r \in Readers |-> {}]
  /\ ret = NoRet
  /\ result = [a \in Analysts |-> NoResult]

\* --------------------------------------------------------------- actions
\* Date.now() advances.
Tick ==
  /\ now < MaxClock
  /\ now' = now + 1
  /\ ret' = NoRet
  /\ UNCHANGED <<fraudRecords, s3SyncInProgress, store, pc, op, req, listed,
                 rec, unseen, result>>

\* Another instance (another bank, or the analysis routes' own S3Service)
\* puts a record under a new key.
ExternalPut(id) ==
  /\ id \in ExtIds \ StoreIds
  /\ store' = Put(store, NewRecord(ExtRequest, id, 0))
  /\ ret' = NoRet
  /\ UNCHANGED <<fraudRecords, s3SyncInProgress, now, pc, op, req, listed,
                 rec, unseen, result>>

\* POST /fraud/submit with body q, up to the await of the upload.
SubmitCall(s, q, r) ==
  /\ pc[s] = "idle"
  /\ OwnCount < MaxSubmits
  /\ IF ~RouteSubmitOk(q) \/ ~ServiceSubmitOk(q)
       THEN /\ ret' = [NoRet EXCEPT !.kind = "submit",
                                    !.rejected = ~RouteSubmitOk(q),
                                    !.sreq = q]
            /\ UNCHANGED <<fraudRecords, pc, rec>>
       ELSE /\ fraudRecords' =
                 Append(fraudRecords, NewRecord(q, FraudId(now, r), now))
            /\ rec' = [rec EXCEPT ![s] = NewRecord(q, FraudId(now, r), now)]
            /\ pc' = [pc EXCEPT ![s] = "uploading"]
            /\ ret' = NoRet
  /\ UNCHANGED <<s3SyncInProgress, store, now, op, req, listed, unseen,
                 result>>

\* The PutObject of a submission settles (uploaded or not) and submitFraud
\* returns.
UploadDone(s, uploaded) ==
  /\ pc[s] = "uploading"
  /\ store' = IF uploaded THEN Put(store, rec[s]) ELSE store
  /\ ret' = [NoRet EXCEPT !.kind = "submit",
                          !.sreq = RequestOf(rec[s]),
                          !.success = SubmitResult(uploaded, rec[s].fraudId).success,
                          !.fraudId = SubmitResult(uploaded, rec[s].fraudId).fraudId,
                          !.record = rec[s], !.uploaded = uploaded]
  /\ pc' = [pc EXCEPT ![s] = "idle"]
  /\ rec' = [rec EXCEPT ![s] = NoRec]
  /\ UNCHANGED <<fraudRecords, s3SyncInProgress, now, op, req, listed,
                 unseen, result>>

\* POST /fraud/query, GET /fraud/analytics or getAllRecords, up to the
\* first await that has to wait for S3.
ReadCall(r, o, q) ==
  /\ pc[r] = "idle"
  /\ IF o = "query" /\ ~RouteQueryOk(q)
       THEN \* the route answers 400 and does not call the service
            /\ ret' = [NoRet EXCEPT !.kind = o, !.rejected = TRUE]
            /\ UNCHANGED <<s3SyncInProgress, pc, op, req, unseen>>
       ELSE IF SyncSkips(s3SyncInProgress)
         THEN /\ \E a \in Answer(o, q, fraudRecords) :
                   ret' = [a EXCEPT !.unseen = StoreIds \ Ids(fraudRecords),
                                    !.before = fraudRecords]
              /\ UNCHANGED <<s3SyncInProgress, pc, op, req, unseen>>
         ELSE /\ s3SyncInProgress' = TRUE
              /\ pc' = [pc EXCEPT ![r] = "listing"]
              /\ op' = [op EXCEPT ![r] = o]
              /\ req' = [req EXCEPT ![r] = q]
              /\ unseen' = [unseen EXCEPT ![r] = StoreIds \ Ids(fraudRecords)]
              /\ ret' = NoRet
  /\ UNCHANGED <<fraudRecords, store, now, listed, rec, result>>

\* listFraudRecords: the ListObjectsV2 response arrives.
ListKeys(p) ==
  /\ pc[p] = "listing"
  /\ listed' = [listed EXCEPT ![p] = ListKeysOf(store, ListLimit)]
  /\ pc' = [pc EXCEPT ![p] = "getting"]
  /\ ret' = NoRet
  /\ UNCHANGED <<fraudRecords, s3SyncInProgress, store, now, op, req, rec,
                 unseen, result>>

\* The rest of loadFromS3 with the records the listing produced, then the
\* caller's continuation: the constructor's load just ends; syncWithS3
\* clears the guard and the read is answered.
FinishLoad(p, records, failed) ==
  /\ fraudRecords' = Merge(fraudRecords, records)
  /\ listed' = [listed EXCEPT ![p] = <<>>]
  /\ IF p = Ctor
       THEN /\ pc' = [pc EXCEPT ![p] = "done"]
            /\ ret' = NoRet
            /\ UNCHANGED <<s3SyncInProgress, op, req, unseen>>
       ELSE /\ s3SyncInProgress' = GuardAfterLoad(failed)
            /\ \E a \in Answer(op[p], req[p], Merge(fraudRecords, records)) :
                 ret' = [a EXCEPT !.synced = TRUE, !.loadFailed = failed,
                                  !.unseen = unseen[p],
                                  !.before = fraudRecords]
            /\ pc' = [pc EXCEPT ![p] = "idle"]
            /\ op' = [op EXCEPT ![p] = "none"]
            /\ req' = [req EXCEPT ![p] = NoRequest]
            /\ unseen' = [unseen EXCEPT ![p] = {}]
  /\ UNCHANGED <<store, now, rec, result>>

\* listFraudRecords: every GetObject has been read and parsed.
LoadOk(p) ==
  /\ pc[p] = "getting"
  /\ FinishLoad(p, GetRecords(store, listed[p]), FALSE)

\* listFraudRecords: a send() throws; the catch returns [].
LoadFail(p) ==
  /\ pc[p] \in {"listing", "getting"}
  /\ FinishLoad(p, <<>>, TRUE)

\* A request with body request reaches POST /behavior/analyze or
\* POST /transactions/predict.  kind is "behavior" or "transaction".
Received(kind, request) ==
  [kind |-> kind, request |-> request, verdict |-> NoResult]

ReceiveAnalysis(a, kind, request) ==
  /\ pc[a] = "idle"
  /\ pc' = [pc EXCEPT ![a] = "received"]
  /\ result' = [result EXCEPT ![a] = Received(kind, request)]
  /\ ret' = NoRet
  /\ UNCHANGED <<fraudRecords, s3SyncInProgress, store, now, op, req, listed,
                 rec, unseen>>

\* The handler of the route, up to the response or, for a verdict that is
\* fraud, up to the await of the upload.
AnalyzeCall(a, err, r) ==
  LET kind == result[a].kind
      request == result[a].request
      ok == IF kind = "behavior" THEN BehaviorRouteOk(request)
            ELSE TransactionRouteOk(request)
      verdict == IF kind = "behavior" THEN analyzeBehavior(request, err)
                 ELSE analyzeTransaction(request, err)
      fraud == IF kind = "behavior" THEN isBehaviorFraud(verdict)
               ELSE isTransactionFraud(verdict)
      fraudRecord ==
        IF kind = "behavior"
          THEN behaviorToFraudRecord(request, verdict, FraudId(now, r), now)
          ELSE transactionToFraudRecord(request, verdict, FraudId(now, r), now)
  IN /\ pc[a] = "received"
     /\ IF ~ok
          THEN /\ ret' = [NoRet EXCEPT !.kind = kind, !.rejected = TRUE,
                                       !.status = 400, !.sample = request]
               /\ pc' = [pc EXCEPT ![a] = "idle"]
               /\ result' = [result EXCEPT ![a] = NoResult]
               /\ UNCHANGED rec
          ELSE IF ~fraud
            THEN /\ ret' = [NoRet EXCEPT !.kind = kind, !.status = 200,
                                         !.sample = request, !.result = verdict]
                 /\ pc' = [pc EXCEPT ![a] = "idle"]
                 /\ result' = [result EXCEPT ![a] = NoResult]
                 /\ UNCHANGED rec
            ELSE /\ pc' = [pc EXCEPT ![a] = "uploading"]
                 /\ rec' = [rec EXCEPT ![a] = fraudRecord]
                 /\ result' = [result EXCEPT ![a].verdict = verdict]
                 /\ ret' = NoRet
     /\ UNCHANGED <<fraudRecords, s3SyncInProgress, store, now, op, req, listed,
                    unseen>>

\* The PutObject of a derived record settles (uploaded or not); the route
\* then sends the response.
AnalysisUploadDone(a, uploaded) ==
  /\ pc[a] = "uploading"
  /\ fraudRecords' = RouteSave(fraudRecords, store, rec[a], uploaded).fraudRecords
  /\ store' = RouteSave(fraudRecords, store, rec[a], uploaded).store
  /\ ret' = [NoRet EXCEPT !.kind = result[a].kind, !.status = 200,
                          !.sample = result[a].request,
                          !.result = result[a].verdict,
                          !.record = rec[a], !.uploaded = uploaded]
  /\ pc' = [pc EXCEPT ![a] = "idle"]
  /\ rec' = [rec EXCEPT ![a] = NoRec]
  /\ result' = [result EXCEPT ![a] = NoResult]
  /\ UNCHANGED <<s3SyncInProgress, now, op, req, listed, unseen>>

NextOn(Subs, Rdrs, Ldrs, SR, QR) ==
  \/ Tick
  \/ \E id \in ExtIds : ExternalPut(id)
  \/ \E s \in Subs, q \in SR, r \in 0..(NumRnd - 1) : SubmitCall(s, q, r)
  \/ \E s \in Subs, uploaded \in BOOLEAN : UploadDone(s, uploaded)
  \/ \E r \in Rdrs, o \in {"query", "analytics", "all"} :
       \E q \in (IF o = "query" THEN QR ELSE {NoRequest}) : ReadCall(r, o, q)
  \/ \E p \in Ldrs : ListKeys(p)
  \/ \E p \in Ldrs : LoadOk(p)
  \/ \E p \in Ldrs : LoadFail(p)

\* Every interleaving of two submitters, two readers and the constructor's
\* load, on few inputs.
Next == NextOn(Submitters, Readers, Loaders, FewSubmitRequests, FewQueryRequests)

Spec == Init /\ [][Next]_vars

\* Every input, with one submitter and one reader at a time, in the
\* behaviours where S3 has not yet answered the constructor's listing.
NextInputs == NextOn({"s1"}, {"r1"}, {"r1"}, SubmitRequests, QueryRequests)

SpecInputs == Init /\ [][NextInputs]_vars

\* ------------------------------------------------- Analytics on its own
\* The submissions the working sets below are made of.  fraudType is any
\* non-empty string: two ordinary names, one that is a canonical array
\* index and one that Object.prototype also has.
AnalyticsRequests ==
  { [BaseRequest EXCEPT !.fraudType = ty, !.timestamp = ts, !.severity = sv] :
      ty \in {"phishing", "card_fraud", "419", "constructor"},
      ts \in {1, 3},
      sv \in {"low", "high"} }

\* The working set after submissions qs[1], qs[2], ... were accepted, the
\* i-th at clock value i and from device i.
SubmittedInOrder(qs) ==
  [i \in 1..Len(qs) |->
     NewRecord([qs[i] EXCEPT !.deviceIdHash = "d" \o ToString(i)],
               FraudId(i, 0), i)]

WorkingSets ==
  { SubmittedInOrder(qs) :
      qs \in UNION { [1..n -> AnalyticsRequests] : n \in 0..MaxRecords } }

\* The constructor's load has ended on an empty bucket, then the
\* submissions were accepted and uploaded.
InitAnalytics ==
  /\ fraudRecords \in WorkingSets
  /\ s3SyncInProgress = FALSE
  /\ store = { fraudRecords[i] : i \in 1..Len(fraudRecords) }
  /\ now = 0
  /\ pc = [p \in Loaders \cup Submitters \cup Analysts |->
             IF p = Ctor THEN "done" ELSE "idle"]
  /\ op = [r \in Readers |-> "none"]
  /\ req = [r \in Readers |-> NoRequest]
  /\ listed = [p \in Loaders |-> <<>>]
  /\ rec = [s \in Submitters \cup Analysts |-> NoRec]
  /\ unseen = [r \in Readers |-> {}]
  /\ ret = NoRet
  /\ result = [a \in Analysts |-> NoResult]

\* GET /fraud/analytics, one call at a time.
NextAnalytics ==
  \/ ReadCall("r1", "analytics", NoRequest)
  \/ ListKeys("r1")
  \/ LoadOk("r1")
  \/ LoadFail("r1")

SpecAnalytics == InitAnalytics /\ [][NextAnalytics]_vars


\* ------------------------------------------------ the analyzers' inputs
\* Behavior samples on both sides of every tier of every factor.
BehaviorSamples ==
  [userId : {"u1"}, sessionId : {"s1"},
   typingSpeed : {125, 126, 233, 234, 421},
   mouseMovement : {399, 400, 960, 3251},
   clickPattern : {<<>>, <<100, 100>>, <<100, 300>>, <<100, 420>>,
                   <<0, 460>>},
   navigationTime : {14, 15, 31, 61},
   pagesVisited : {<<"home">>, <<"login", "transfer">>, <<"Confirmation">>,
                   <<"transfer", "confirmation">>, <<"transfer", "login">>,
                   <<"login", "dashboard", "confirmation">>,
                   <<"login", "home", "Payment-Form">>}]

CalmBehavior ==
  [userId |-> "u1", sessionId |-> "s1", typingSpeed |-> 234,
   mouseMovement |-> 960, clickPattern |-> <<100, 100>>,
   navigationTime |-> 14, pagesVisited |-> <<"home">>]

CoercedBehavior ==
  [userId |-> "u1", sessionId |-> "s1", typingSpeed |-> 125,
   mouseMovement |-> 399, clickPattern |-> <<0, 460>>,
   navigationTime |-> 61, pagesVisited |-> <<"Confirmation">>]

\* Transaction samples in every tier of every factor; amounts come with the
\* user's average.
TransactionSamples ==
  { [transactionId |-> "t1", userId |-> "u1", amount |-> am[1],
     currency |-> "USD", recipientAccount |-> rc,
     userAverageTransAmount |-> am[2], transactionType |-> ty,
     location |-> lo, timestamp |-> ts, deviceId |-> dv] :
      am \in {<<100, 100>>, <<120, 100>>, <<150, 100>>, <<200, 100>>,
              <<300, 100>>, <<500, 100>>, <<501, 100>>, <<0, 0>>, <<10, 0>>},
      ty \in {"purchase", "Bank-Transfer", "WIRE-TRANSFER"},
      lo \in {"Boston", "other state", "International", "Offshore-Bank"},
      dv \in {"device-12345", "my phone", "guest-01", "NEW-phone"},
      ts \in {[valid |-> TRUE, date |-> 3, hour |-> 12],
              [valid |-> TRUE, date |-> 1, hour |-> 12],
              [valid |-> TRUE, date |-> 3, hour |-> 8],
              [valid |-> TRUE, date |-> 3, hour |-> 23],
              [valid |-> TRUE, date |-> 3, hour |-> 3],
              InvalidDate},
      rc \in {"ACCT-12345678", "ACC-123", "12345678", "ab12"} }

SafeTransaction ==
  [transactionId |-> "t1", userId |-> "u1", amount |-> 100,
   currency |-> "USD", recipientAccount |-> "ACCT-12345678",
   userAverageTransAmount |-> 100, transactionType |-> "purchase",
   location |-> "Boston", timestamp |-> [valid |-> TRUE, date |-> 3, hour |-> 12],
   deviceId |-> "device-12345"]

RiskyTransaction ==
  [SafeTransaction EXCEPT !.amount = 501, !.transactionType = "WIRE-TRANSFER",
                          !.location = "Offshore-Bank"]

\* The worked example of the transaction scorer.
WireToOffshore ==
  [transactionId |-> "t1", userId |-> "u1", amount |-> 5000,
   currency |-> "USD", recipientAccount |-> "acc999",
   userAverageTransAmount |-> 200, transactionType |-> "wire_transfer",
   location |-> "offshore", timestamp |-> [valid |-> TRUE, date |-> 3, hour |-> 3],
   deviceId |-> "device-xyz789"]

\* Bodies the routes refuse.
BadBehaviorSamples == {[CalmBehavior EXCEPT !.userId = NoVal]}

BadTransactionSamples ==
  {[SafeTransaction EXCEPT !.transactionType = NoVal],
   [SafeTransaction EXCEPT !.amount = 0 - 1]}

\* The handlers of the two analysis routes, with random suffixes Rnd and
\* upload outcomes Ups.
NextHandlersOn(Rnd, Ups) ==
  \/ \E a \in Analysts, err \in RoundingErrors, r \in Rnd : AnalyzeCall(a, err, r)
  \/ \E a \in Analysts, uploaded \in Ups : AnalysisUploadDone(a, uploaded)

\* One request of every sample, with the bucket out of reach: the
\* analyzers as functions of the request.
InitScore ==
  /\ fraudRecords = <<>>
  /\ s3SyncInProgress = FALSE
  /\ store = {}
  /\ now = 0
  /\ pc = [p \in Loaders \cup Submitters \cup Analysts |->
             IF p = Ctor THEN "done" ELSE IF p \in Analysts THEN "received"
             ELSE "idle"]
  /\ op = [r \in Readers |-> "none"]
  /\ req = [r \in Readers |-> NoRequest]
  /\ listed = [p \in Loaders |-> <<>>]
  /\ rec = [s \in Submitters \cup Analysts |-> NoRec]
  /\ unseen = [r \in Readers |-> {}]
  /\ ret = NoRet
  /\ \E received \in
          { Received("behavior", q) : q \in BehaviorSamples \cup BadBehaviorSamples }
          \cup { Received("transaction", q) :
                   q \in TransactionSamples \cup {WireToOffshore}
                         \cup BadTransactionSamples } :
       result = [a \in Analysts |-> received]

NextScore == NextHandlersOn({0}, {FALSE})

SpecScore == InitScore /\ [][NextScore]_vars

\* The analysis routes beside the ledger: few samples, the clock, and a
\* reader that asks for all records; the constructor's listing stays
\* unanswered.
NextAnalysis ==
  \/ \E a \in Analysts, request \in {CalmBehavior, CoercedBehavior} :
       ReceiveAnalysis(a, "behavior", request)
  \/ \E a \in Analysts, request \in {SafeTransaction, RiskyTransaction} :
       ReceiveAnalysis(a, "transaction", request)
  \/ NextHandlersOn({0}, BOOLEAN)
  \/ Tick
  \/ ReadCall("r1", "all", NoRequest)
  \/ ListKeys("r1")
  \/ LoadOk("r1")
  \/ LoadFail("r1")

SpecAnalysis == Init /\ [][NextAnalysis]_vars

\* ================================================================ claims
IsRead == ret.kind \in {"query", "analytics", "all"} /\ ~ret.rejected

InWorkingSet(r) == \E i \in 1..Len(fraudRecords) : fraudRecords[i] = r

\* What listFraudRecords can return in the current state of the store.
Listings == {GetRecords(store, ListKeysOf(store, ListLimit)), <<>>}

\* C1: under every interleaving of Submit calls, guarded resyncs and the
\* constructor's unguarded load, no two records of the working set have the
\* same identifier, and every record a Submit appended is still there.
C1_NoDuplicateNoLoss ==
  /\ Cardinality(Ids(fraudRecords)) = Len(fraudRecords)
  /\ \A s \in Submitters : pc[s] = "uploading" => InWorkingSet(rec[s])
  /\ (ret.kind = "submit" /\ ret.success) => InWorkingSet(ret.record)

\* The part of C1 the loads are responsible for: a step that is not a
\* Submit appends only identifiers the working set did not hold, each once,
\* and removes nothing.
LoadsAddNoDuplicate ==
  [][OwnCount' = OwnCount =>
       /\ Len(fraudRecords') - Len(fraudRecords)
            = Cardinality(Ids(fraudRecords') \ Ids(fraudRecords))
       /\ SubSeq(fraudRecords', 1, Len(fraudRecords)) = fraudRecords]_vars

\* C2: resync is idempotent: a second run that gets the same listing as
\* the first leaves the working set exactly as the first left it, and adds
\* no identifier a second time.
C2_ResyncIdempotent ==
  \A L \in Listings :
    LET once == Merge(fraudRecords, L)
        twice == Merge(once, L)
    IN /\ twice = once
       /\ Len(twice) - Cardinality(Ids(twice))
            = Len(fraudRecords) - Cardinality(Ids(fraudRecords))

\* A read has just returned after a load of its own that appended records,
\* and the store still lists what the working set now holds.
C2_Witness ==
  /\ IsRead /\ ret.synced /\ ~ret.loadFailed
  /\ Len(fraudRecords) > Len(ret.before)
  /\ Len(ret.before) > 0
  /\ \E L \in Listings : L # <<>> /\ Ids(L) \subseteq Ids(fraudRecords)

\* C3: a read requested while a resync is in flight starts no listing and
\* does not wait: it is answered in the same step from the working set as
\* it is, and leaves the guard, the working set and the store alone.
C3_SkipIsNoOp ==
  [][/\ s3SyncInProgress =>
          \A r \in Readers :
            pc[r] = "idle" => pc'[r] = "idle" /\ listed'[r] = listed[r]
     /\ (ret'.kind \in {"query", "analytics", "all"} /\ ~ret'.rejected
         /\ ~ret'.synced) =>
          /\ s3SyncInProgress /\ s3SyncInProgress'
          /\ ret'.scanned = fraudRecords
          /\ UNCHANGED <<fraudRecords, store, pc, listed>>]_vars

\* A query answered "not found" while the load in flight was about to
\* bring a record that matches it.
C3_Witness ==
  /\ ret.kind = "query" /\ ~ret.rejected /\ ~ret.synced
  /\ s3SyncInProgress
  /\ ~ret.query.found
  /\ \E x \in store :
       /\ x.fraudId \in ret.unseen
       /\ x.accountIdHash = ret.qreq.accountIdHash

\* C4: every Query and Analytics call takes into account every record that
\* was in the store when the call started.
C4_ReadsSeeStore ==
  (ret.kind \in {"query", "analytics"} /\ ~ret.rejected) =>
    ret.unseen \subseteq Ids(ret.scanned)

\* C5: a submission whose write-through failed still returns success with
\* the generated identifier, and its record is still in the working set.
C5_UploadFailureKeepsSubmission ==
  (ret.kind = "submit" /\ ret.record # NoRec /\ ~ret.uploaded) =>
    /\ ret.success
    /\ ret.fraudId = ret.record.fraudId
    /\ ret.fraudId # NoId
    /\ InWorkingSet(ret.record)

C5_Witness ==
  /\ ret.kind = "submit" /\ ret.record # NoRec /\ ~ret.uploaded
  /\ ret.record.fraudId \notin StoreIds
  /\ ret.success


\* C6: a store error during the resync of a Query or Analytics call does
\* not fail the call: the working set is what it was before the load ended
\* and the answer is made from it.
C6_FailedResyncKeepsSnapshot ==
  (ret.kind \in {"query", "analytics"} /\ ret.synced /\ ret.loadFailed) =>
    /\ ~ret.rejected
    /\ fraudRecords = ret.before
    /\ ret.scanned = ret.before
    /\ ~s3SyncInProgress
    /\ ret.kind = "query" =>
         ret.query.found =
           \E i \in 1..Len(ret.before) :
             \/ /\ ret.qreq.deviceIdHash # NoVal
                /\ ret.before[i].deviceIdHash = ret.qreq.deviceIdHash
             \/ /\ ret.qreq.accountIdHash # NoVal
                /\ ret.before[i].accountIdHash = ret.qreq.accountIdHash
             \/ /\ ret.qreq.transactionPatternHash # NoVal
                /\ ret.before[i].transactionPatternHash
                     = ret.qreq.transactionPatternHash
    /\ ret.kind = "analytics" =>
         ret.analytics.totalFraudRecords = Len(ret.before)

\* The load failed while the store held a record the working set lacked,
\* and the read was answered from the records already there.
C6_Witness ==
  /\ ret.kind = "query" /\ ret.synced /\ ret.loadFailed
  /\ Len(ret.before) > 0
  /\ ret.unseen # {}
  /\ ret.query.found

BadSubmission(q) ==
  \/ q.bankId = NoVal \/ q.deviceIdHash = NoVal \/ q.accountIdHash = NoVal
  \/ q.transactionPatternHash = NoVal \/ q.fraudType = NoVal
  \/ q.timestamp = 0 \/ q.severity = NoVal
  \/ q.severity \notin {"low", "medium", "high", "critical"}

\* C7: a submission with a required field missing or with a severity
\* outside low/medium/high/critical returns failure without an identifier,
\* and neither the working set nor the store ever receives a record made
\* from it.
C7_BadSubmissionRejected ==
  /\ [][(ret'.kind = "submit" /\ BadSubmission(ret'.sreq)) =>
          /\ ~ret'.success
          /\ ret'.fraudId = NoId
          /\ UNCHANGED <<fraudRecords, store>>]_vars
  /\ [](\A i \in 1..Len(fraudRecords) :
          ~BadSubmission(RequestOf(fraudRecords[i])))
  /\ [](\A x \in store : ~BadSubmission(RequestOf(x)))

\* A submission with severity "LOW" has just been refused while the
\* working set holds an accepted one.
C7_Witness ==
  /\ ret.kind = "submit" /\ ret.sreq.severity = "LOW"
  /\ ~ret.success
  /\ Len(fraudRecords) > 0

\* C8: the working set is append-only: every step leaves the old working
\* set as a prefix of the new one, records unchanged and in the same order.
C8_AppendOnly ==
  [][/\ Len(fraudRecords) <= Len(fraudRecords')
     /\ SubSeq(fraudRecords', 1, Len(fraudRecords)) = fraudRecords]_vars

\* Analytics has returned after a load of its own appended a stored record
\* behind a submitted one.
C8_Witness ==
  /\ ret.kind = "analytics" /\ ret.synced
  /\ Len(ret.before) > 0
  /\ Len(fraudRecords) > Len(ret.before)
  /\ fraudRecords[1].fraudId \notin ExtIds
  /\ fraudRecords[Len(fraudRecords)].fraudId \in ExtIds

Provided(q) ==
  { f \in {"deviceIdHash", "accountIdHash", "transactionPatternHash"} :
      q[f] # NoVal }

\* C9: for a Query that provides exactly one hash, found and that field's
\* match flag are true exactly when some record of the working set has that
\* value in that field, and the other two flags are false.
C9_SingleHashQuery ==
  (ret.kind = "query" /\ ~ret.rejected /\ Cardinality(Provided(ret.qreq)) = 1) =>
    \A f \in Provided(ret.qreq) :
      LET stored == \E i \in 1..Len(fraudRecords) :
                      fraudRecords[i][f] = ret.qreq[f]
      IN /\ ret.query.found = stored
         /\ ret.query.matches[f] = stored
         /\ \A g \in {"deviceIdHash", "accountIdHash",
                      "transactionPatternHash"} \ {f} :
              ret.query.matches[g] = FALSE

\* A query by account hash alone was answered found while the working set
\* also holds a record that matches on nothing.
C9_Witness ==
  /\ ret.kind = "query" /\ ~ret.rejected
  /\ Provided(ret.qreq) = {"accountIdHash"}
  /\ ret.query.found
  /\ \E i \in 1..Len(fraudRecords) :
       fraudRecords[i].accountIdHash # ret.qreq.accountIdHash
  /\ \E i \in 1..Len(fraudRecords) :
       fraudRecords[i].deviceIdHash = ret.qreq.accountIdHash

\* The same query answered not found over a non-empty working set.
C9_WitnessNotFound ==
  /\ ret.kind = "query" /\ ~ret.rejected
  /\ Provided(ret.qreq) = {"accountIdHash"}
  /\ ~ret.query.found
  /\ Len(fraudRecords) > 0

\* C10: the list a Query returns is the working-set records equal to the
\* request on at least one provided hash, in working-set order, each once;
\* it is present exactly when found is true.
C10_QueryReturnsOrMatches ==
  (ret.kind = "query" /\ ~ret.rejected) =>
    LET hit(r) == \E f \in Provided(ret.qreq) : r[f] = ret.qreq[f]
        expected == SelectSeq(fraudRecords, hit)
    IN /\ ret.query.hasRecords = ret.query.found
       /\ ret.query.found = (Len(expected) > 0)
       /\ ret.query.found => ret.query.fraudRecords = expected
       /\ ~ret.query.found => ret.query.fraudRecords = <<>>

\* A query with two hashes returned two records of three, one of them
\* matching on one hash only.
C10_Witness ==
  /\ ret.kind = "query" /\ ~ret.rejected
  /\ Cardinality(Provided(ret.qreq)) = 2
  /\ Len(ret.query.fraudRecords) = 2
  /\ Len(fraudRecords) = 3
  /\ \E i \in 1..2 :
       \E f \in Provided(ret.qreq) :
         ret.query.fraudRecords[i][f] # ret.qreq[f]

\* C11: a Query that provides none of the three hashes is refused: no
\* answer is made from the working set, no resync is started, and the
\* working set, the guard and the store stay as they were.
C11_EmptyQueryRejected ==
  [][(ret'.kind = "query" /\ Provided(ret'.qreq) = {}) =>
       /\ ret'.rejected
       /\ ~ret'.synced
       /\ ret'.scanned = <<>>
       /\ ~ret'.query.found
       /\ ret'.query.fraudRecords = <<>>
       /\ UNCHANGED <<fraudRecords, s3SyncInProgress, store, pc, listed>>]_vars

\* A query without hashes has just been refused while no resync was in
\* flight and the store held a record the working set lacked.
C11_Witness ==
  /\ ret.kind = "query" /\ ret.rejected
  /\ Provided(ret.qreq) = {}
  /\ ~s3SyncInProgress
  /\ Len(fraudRecords) > 0
  /\ StoreIds \ Ids(fraudRecords) # {}
  /\ \A r \in Readers : pc[r] = "idle"

AnalyticsFields ==
  {"lastAttemptedFraud", "mostCommonFraud", "lastFraudulentDeviceID",
   "totalFraudRecords", "fraudByType", "fraudBySeverity"}

\* C12: Analytics answered from an empty working set has all six fields
\* set: "N/A" for the three strings, 0 for the total and empty mappings for
\* the counts per type and per severity; the call returns (it does not
\* throw) whether its resync succeeded, failed or was skipped.
C12_EmptyAnalytics ==
  (ret.kind = "analytics" /\ Len(ret.scanned) = 0) =>
    /\ ~ret.rejected
    /\ DOMAIN ret.analytics = AnalyticsFields
    /\ ret.analytics.lastAttemptedFraud = "N/A"
    /\ ret.analytics.mostCommonFraud = "N/A"
    /\ ret.analytics.lastFraudulentDeviceID = "N/A"
    /\ ret.analytics.totalFraudRecords = 0
    /\ DOMAIN ret.analytics.fraudByType = {}
    /\ DOMAIN ret.analytics.fraudBySeverity = {}

\* Analytics has returned from an empty working set after a resync of its
\* own that failed while the store held a record.
C12_Witness ==
  /\ ret.kind = "analytics" /\ ret.synced /\ ret.loadFailed
  /\ Len(ret.scanned) = 0
  /\ fraudRecords = <<>>
  /\ store # {}

\* The records of ws with fraud type t.
RecordsOfType(ws, t) == { i \in 1..Len(ws) : ws[i].fraudType = t }

\* C13: the most-common fraud type Analytics reports has the highest number
\* of records in the working set, and among the types with that number it
\* is the one whose first record was inserted earliest.
C13_MostCommonTieBreak ==
  (ret.kind = "analytics" /\ Len(ret.scanned) > 0) =>
    LET ws == ret.scanned
        types == { ws[i].fraudType : i \in 1..Len(ws) }
        n(t) == Cardinality(RecordsOfType(ws, t))
        top == { t \in types : \A u \in types : n(u) <= n(t) }
        mc == ret.analytics.mostCommonFraud
    IN /\ mc \in top
       /\ \A u \in top : Min(RecordsOfType(ws, mc)) <= Min(RecordsOfType(ws, u))

RECURSIVE SumOf(_, _)
SumOf(f, S) ==
  IF S = {} THEN 0
  ELSE LET k == CHOOSE x \in S : TRUE IN f[k].number + SumOf(f, S \ {k})

\* The counters of a mapping are numbers and add up to total.
SumsTo(f, total) ==
  /\ \A k \in DOMAIN f : f[k].isNumber
  /\ SumOf(f, DOMAIN f) = total

\* C14: Analytics on a non-empty working set: the total is the size of the
\* working set, the counts per type and the counts per severity each add
\* up to it, and the date and the device hash are those of a record whose
\* event timestamp is the latest, wherever it was inserted.
C14_AnalyticsOverWholeSet ==
  (ret.kind = "analytics" /\ Len(ret.scanned) > 0) =>
    LET ws == ret.scanned
        a == ret.analytics
    IN /\ DOMAIN a = AnalyticsFields
       /\ a.totalFraudRecords = Len(ws)
       /\ SumsTo(a.fraudByType, Len(ws))
       /\ SumsTo(a.fraudBySeverity, Len(ws))
       /\ \E i \in 1..Len(ws) :
            /\ \A j \in 1..Len(ws) : ws[j].timestamp <= ws[i].timestamp
            /\ a.lastAttemptedFraud = FormatDate(ws[i].timestamp)
            /\ a.lastFraudulentDeviceID = ws[i].deviceIdHash

\* What holds of the same answer whatever the fraud types are: everything
\* but the counts per type.
AnalyticsButTypeCounts ==
  (ret.kind = "analytics" /\ Len(ret.scanned) > 0) =>
    LET ws == ret.scanned
        a == ret.analytics
    IN /\ DOMAIN a = AnalyticsFields
       /\ a.totalFraudRecords = Len(ws)
       /\ SumsTo(a.fraudBySeverity, Len(ws))
       /\ DOMAIN a.fraudByType = { ws[i].fraudType : i \in 1..Len(ws) }
       /\ \E i \in 1..Len(ws) :
            /\ \A j \in 1..Len(ws) : ws[j].timestamp <= ws[i].timestamp
            /\ a.lastAttemptedFraud = FormatDate(ws[i].timestamp)
            /\ a.lastFraudulentDeviceID = ws[i].deviceIdHash

\* C15: the identifiers Submit generates are unique and increase in
\* submission order: of two submitted records of the working set, the one
\* appended later has the greater identifier, also when both were
\* generated at the same clock value.
C15_IdsUniqueMonotonic ==
  \A i, j \in 1..Len(fraudRecords) :
    (/\ i < j
     /\ fraudRecords[i].fraudId \notin ExtIds
     /\ fraudRecords[j].fraudId \notin ExtIds) =>
      fraudRecords[i].fraudId < fraudRecords[j].fraudId

\* What the identifiers do guarantee: a submission made at a later clock
\* value gets a greater identifier.
IdsFollowClock ==
  \A i, j \in 1..Len(fraudRecords) :
    (/\ fraudRecords[i].fraudId \notin ExtIds
     /\ fraudRecords[j].fraudId \notin ExtIds
     /\ fraudRecords[i].submittedAt < fraudRecords[j].submittedAt) =>
      fraudRecords[i].fraudId < fraudRecords[j].fraudId

\* An analysis route has just answered 200 for a verdict that is fraud.
FraudAnswered == ret.status = 200 /\ ret.record # NoRec

\* C16 as stated: when a behavior or transaction verdict crosses the fraud
\* threshold, the derived record is in the working set of the ledger as
\* soon as the analysis has been handled, without a later resync.
C16_DerivedInWorkingSetFirst == FraudAnswered => InWorkingSet(ret.record)

\* A step of an analysis route.
AnalystStep == \E a \in Analysts : pc'[a] # pc[a]

\* C16, amended: when a behavior or transaction verdict crosses the fraud
\* threshold, the route uploads the derived record to the durable store
\* and leaves the working set of the ledger as it was; a derived record is
\* in the working set only once a later resync has loaded it from the store.
C16_DerivedOnlyByResync ==
  [][/\ AnalystStep => fraudRecords' = fraudRecords
     /\ (FraudAnswered' /\ ret'.uploaded) => ret'.record \in store'
     /\ \A i \in 1..Len(fraudRecords') : fraudRecords'[i].fraudId \in StoreIds']_vars

\* An analysis was answered for a fraud verdict, its record is in the
\* store and not in the working set.
C16_Witness ==
  FraudAnswered /\ ret.uploaded /\ ret.record \in store
  /\ ~InWorkingSet(ret.record)

\* C17: for a fraud-worthy verdict the upload of the derived record
\* happens after the analysis response has been returned, so when the
\* response is returned the upload is still pending and a failing upload
\* cannot have delayed the response.
C17_UploadAfterResponse ==
  FraudAnswered => \E a \in Analysts : pc[a] = "uploading" /\ rec[a] = ret.record

\* What does hold of the response: it carries the verdict of the analyzer
\* whether the upload succeeded or not.
ResponseIgnoresUpload ==
  (FraudAnswered /\ ret.kind = "transaction")
    => \E err \in RoundingErrors : ret.result = analyzeTransaction(ret.sample, err)

\* The risk score of the verdict in the response just returned.
ReturnedScore ==
  IF ret.kind = "behavior" THEN ret.result.intentRiskScore
  ELSE ret.result.riskScore

\* C18: for every valid behavior sample and every valid transaction
\* sample, the returned risk score lies in [0.00, 1.00] and is a multiple
\* of 0.01, also when the unclamped weighted sum exceeds 1.0.
C18_ScoreInRange ==
  ret.status = 200
    => /\ ReturnedScore >= 0 /\ ReturnedScore <= One
       /\ ReturnedScore % 100 = 0

\* A verdict whose unclamped sum exceeds 1.0 was returned with score 1.00.
C18_Witness ==
  ret.status = 200 /\ ret.result.rawScore > One /\ ReturnedScore = One

\* A transaction verdict was just returned.
TransactionAnswered == ret.status = 200 /\ ret.kind = "transaction"

\* C19: in every transaction verdict the category agrees with the returned
\* risk score: HIGH_RISK iff the score is >= 0.6, SUSPICIOUS iff it is
\* >= 0.3 and < 0.6, SAFE iff it is < 0.3.
C19_CategoryAgreesWithScore ==
  TransactionAnswered
    => /\ ret.result.predictionResult = "HIGH_RISK"
            <=> ret.result.riskScore >= HIGH_RISK_SCORE_THRESHOLD
       /\ ret.result.predictionResult = "SUSPICIOUS"
            <=> /\ ret.result.riskScore >= SUSPICIOUS_SCORE_THRESHOLD
                /\ ret.result.riskScore < HIGH_RISK_SCORE_THRESHOLD
       /\ ret.result.predictionResult = "SAFE"
            <=> ret.result.riskScore < SUSPICIOUS_SCORE_THRESHOLD

\* What does hold: the category is the one of the score before it is
\* rounded, which is within 0.005 of the returned score.
CategoryOfUnroundedScore ==
  TransactionAnswered
    => /\ ret.result.predictionResult = "HIGH_RISK"
            => ret.result.riskScore >= HIGH_RISK_SCORE_THRESHOLD
       /\ ret.result.predictionResult = "SUSPICIOUS"
            => /\ ret.result.riskScore >= SUSPICIOUS_SCORE_THRESHOLD
               /\ ret.result.riskScore <= HIGH_RISK_SCORE_THRESHOLD
       /\ ret.result.predictionResult = "SAFE"
            => ret.result.riskScore <= SUSPICIOUS_SCORE_THRESHOLD

\* The rules of the action state machine, each on a score in
\* ten-thousandths and a sequence of reason codes.
BlockRule(score, codes) ==
  \/ score >= 8500
  \/ score >= 7000 /\ (Has(codes, "VERY_HIGH_AMOUNT") \/ Has(codes, "HIGH_RISK_LOCATION"))
  \/ Len(codes) >= 4

DelayRule(score, codes) ==
  \/ score >= 6000
  \/ score >= 5000 /\ (Has(codes, "HIGH_AMOUNT") \/ Has(codes, "NEW_DEVICE")
                       \/ Has(codes, "HIGH_RISK_TRANSACTION_TYPE"))
  \/ Len(codes) >= 3

FlagRule(score, codes) == score >= 2500 \/ Len(codes) >= 2

FirstMatchingRule(score, codes) ==
  IF BlockRule(score, codes) THEN "BLOCK"
  ELSE IF DelayRule(score, codes) THEN "DELAY_AND_MFA"
  ELSE IF FlagRule(score, codes) THEN "FLAG_FOR_REVIEW"
  ELSE "APPROVE"

ActionsReturned ==
  /\ TransactionAnswered
  /\ ret.result.recommendedAction = "APPROVE"

RoundedAcrossThreshold ==
  /\ TransactionAnswered
  /\ \E t \in {2500, 5000, 6000, 7000, 8500} :
       \/ ret.result.rawScore < t /\ ret.result.riskScore >= t
       \/ ret.result.rawScore >= t /\ ret.result.riskScore < t

TieredFactors ==
  { [risk |-> analyzeTransactionType(ret.sample.transactionType), weight |-> 22,
     code |-> "HIGH_RISK_TRANSACTION_TYPE", top |-> 85],
    [risk |-> analyzeLocation(ret.sample.location), weight |-> 18,
     code |-> "HIGH_RISK_LOCATION", top |-> 90],
    [risk |-> analyzeDevice(ret.sample.deviceId), weight |-> 18,
     code |-> "NEW_DEVICE", top |-> 80],
    [risk |-> analyzeTiming(ret.sample.timestamp), weight |-> 12,
     code |-> "UNUSUAL_TIMING", top |-> 65],
    [risk |-> analyzeRecipient(ret.sample.recipientAccount), weight |-> 12,
     code |-> "NEW_RECIPIENT", top |-> 85] }

RECURSIVE SumOfFactors(_)
SumOfFactors(fs) ==
  IF fs = {} THEN 0
  ELSE LET f == CHOOSE g \in fs : TRUE
       IN f.risk * f.weight + SumOfFactors(fs \ {f})

AmountRisk ==
  analyzeAmount(ret.sample.amount, ret.sample.userAverageTransAmount)

\* amount / average >= 5 in the arithmetic of the code: with average 0 the
\* quotient is Infinity for a positive amount and NaN for amount 0.
RatioVeryHigh ==
  IF ret.sample.userAverageTransAmount > 0
    THEN ret.sample.amount >= VERY_HIGH_AMOUNT_MULTIPLIER
                                * ret.sample.userAverageTransAmount
    ELSE ret.sample.amount > 0

\* C23: the amount factor emits a reason code if and only if its sub-score
\* is non-zero, and that code is VERY_HIGH_AMOUNT exactly when amount /
\* average is >= 5 (the threshold that gives sub-score 0.98) and
\* HIGH_AMOUNT otherwise.
C23_AmountCode ==
  TransactionAnswered
    => /\ (Has(ret.result.reasonCodes, "VERY_HIGH_AMOUNT")
           \/ Has(ret.result.reasonCodes, "HIGH_AMOUNT")) <=> AmountRisk > 0
       /\ Has(ret.result.reasonCodes, "VERY_HIGH_AMOUNT")
            <=> (AmountRisk > 0 /\ RatioVeryHigh)
       /\ Has(ret.result.reasonCodes, "HIGH_AMOUNT")
            <=> (AmountRisk > 0 /\ ~RatioVeryHigh)

\* What does hold: a code if and only if the sub-score is non-zero, and
\* VERY_HIGH_AMOUNT exactly when the amount is more than 5 times the
\* average.
AmountCodeAboveFiveTimes ==
  TransactionAnswered
    => /\ (Has(ret.result.reasonCodes, "VERY_HIGH_AMOUNT")
           \/ Has(ret.result.reasonCodes, "HIGH_AMOUNT")) <=> AmountRisk > 0
       /\ Has(ret.result.reasonCodes, "VERY_HIGH_AMOUNT")
            <=> /\ AmountRisk > 0
                /\ ret.sample.amount > VERY_HIGH_AMOUNT_MULTIPLIER
                                         * ret.sample.userAverageTransAmount

\* A verdict for a transaction whose timestamp cannot be parsed.
UnparseableAnswered == TransactionAnswered /\ ~ret.sample.timestamp.valid

\* The weighted sum of the sample just answered had its timestamp been a
\* weekday noon, when the timing factor adds nothing.
SumWithoutTiming ==
  WeightedSum(TransactionFactors(
    [ret.sample EXCEPT !.timestamp = [valid |-> TRUE, date |-> 3, hour |-> 12]]))

\* C24: a transaction whose timestamp cannot be parsed is not an error:
\* the timing factor yields the fixed sub-score 0.35, which adds 0.042 to
\* the weighted sum, with no reason code, and a verdict is returned.
C24_UnparseableTimestamp ==
  /\ \A a \in Analysts :
       (pc[a] = "idle" /\ ret.kind = "transaction"
        /\ TransactionRouteOk(ret.sample)) => ret.status = 200
  /\ UnparseableAnswered
       => /\ ret.result.rawScore = SumWithoutTiming + 35 * 12
          /\ ~Has(ret.result.reasonCodes, "UNUSUAL_TIMING")

\* What does hold: a verdict is returned, and the timing factor adds
\* nothing to the sum and no reason code.
UnparseableTimestampAddsNothing ==
  /\ \A a \in Analysts :
       (pc[a] = "idle" /\ ret.kind = "transaction"
        /\ TransactionRouteOk(ret.sample)) => ret.status = 200
  /\ UnparseableAnswered
       => /\ ret.result.rawScore = SumWithoutTiming
          /\ ~Has(ret.result.reasonCodes, "UNUSUAL_TIMING")

UnparseableWitness == UnparseableAnswered /\ ret.result.rawScore > 0

\* A behavior verdict was just returned.
BehaviorAnswered == ret.status = 200 /\ ret.kind = "behavior"

IsPage(page, word) == includes(toLowerCase(page), word)

\* A transfer, confirmation or payment page is in the sequence with no
\* login page before it.
SensitiveWithoutPriorLogin(pagesVisited) ==
  \E i \in 1..Len(pagesVisited) :
    /\ \E word \in {"transfer", "confirmation", "payment"} :
         IsPage(pagesVisited[i], word)
    /\ \A j \in 1..(i - 1) : ~IsPage(pagesVisited[j], "login")

\* What the page-visit factor added to the sum of the verdict just
\* returned.
PageVisitShare ==
  ret.result.rawScore - WeightedSum(SubSeq(BehaviorFactors(ret.sample), 1, 4))

\* C25: the page-visit sub-score is 0.9 (0.108 of the total) whenever a
\* transfer, confirmation or payment page appears in the visited sequence
\* without a login page before it.
C25_SensitivePageBeforeLogin ==
  (BehaviorAnswered /\ SensitiveWithoutPriorLogin(ret.sample.pagesVisited))
    => /\ analyzePageVisits(ret.sample.pagesVisited) = 90
       /\ PageVisitShare = 90 * 12

\* What does hold: the sub-score is 0.9 exactly when such a page is in the
\* sequence and no login page is anywhere in it, before or after.
SensitivePageWithoutAnyLogin ==
  BehaviorAnswered
    => LET pages == ret.sample.pagesVisited
           noLogin == \A j \in 1..Len(pages) : ~IsPage(pages[j], "login")
       IN (SensitiveWithoutPriorLogin(pages) /\ noLogin)
            <=> (analyzePageVisits(pages) = 90 /\ PageVisitShare = 90 * 12)

TransferThenConfirmation ==
  /\ BehaviorAnswered
  /\ ret.sample.pagesVisited = <<"transfer", "confirmation">>
  /\ PageVisitShare = 1080

\* The severity buckets of the Record Adapter, on scores in
\* ten-thousandths.
BehaviorSeverity(score) ==
  IF score >= 8000 THEN "critical"
  ELSE IF score >= 6000 THEN "high"
  ELSE IF score >= 4000 THEN "medium"
  ELSE "low"

TransactionSeverity(category, score) ==
  IF category = "HIGH_RISK" /\ score >= 8000 THEN "critical"
  ELSE IF category = "HIGH_RISK" THEN "high"
  ELSE IF category = "SUSPICIOUS" /\ score >= 5000 THEN "high"
  ELSE IF category = "SUSPICIOUS" THEN "medium"
  ELSE "low"

\* The severity a record must have for verdict v of an analysis of the
\* given kind.
VerdictSeverity(kind, v) ==
  IF kind = "behavior" THEN BehaviorSeverity(v.intentRiskScore)
  ELSE TransactionSeverity(v.predictionResult, v.riskScore)

\* C26: the Record Adapter buckets severity from the verdict (behavior:
\* >= 0.8 critical, >= 0.6 high, >= 0.4 medium, else low; transaction:
\* HIGH_RISK with >= 0.8 critical, other HIGH_RISK high, SUSPICIOUS with
\* >= 0.5 high, other SUSPICIOUS medium, SAFE low), and the result is one
\* of the four severities the ledger accepts.  Stated of the record the
\* route is uploading and of the record derived from any verdict returned.
C26_SeverityBuckets ==
  /\ \A a \in Analysts :
       pc[a] = "uploading"
         => /\ rec[a].severity = VerdictSeverity(result[a].kind, result[a].verdict)
            /\ rec[a].severity \in validSeverities
  /\ BehaviorAnswered
       => LET r == behaviorToFraudRecord(ret.sample, ret.result, 0, now)
          IN r.severity = VerdictSeverity("behavior", ret.result)
             /\ r.severity \in validSeverities
  /\ TransactionAnswered
       => LET r == transactionToFraudRecord(ret.sample, ret.result, 0, now)
          IN r.severity = VerdictSeverity("transaction", ret.result)
             /\ r.severity \in validSeverities

\* A record of severity high is being uploaded for a SUSPICIOUS verdict of
\* score 0.5 or more.
C26_Witness ==
  \E a \in Analysts :
    /\ pc[a] = "uploading" /\ result[a].kind = "transaction"
    /\ result[a].verdict.predictionResult = "SUSPICIOUS"
    /\ result[a].verdict.riskScore >= 5000
    /\ rec[a].severity = "high"

\* Records of the other severities are derived too.
SeveritiesDerived ==
  /\ \E a \in Analysts : pc[a] = "uploading" /\ rec[a].severity = "critical"
                         /\ result[a].kind = "behavior"

\* C30: in every transaction verdict the action is at least as strict as
\* the category: HIGH_RISK implies DELAY_AND_MFA or BLOCK, SUSPICIOUS
\* implies an action other than APPROVE, and APPROVE occurs only with
\* category SAFE and fewer than two reason codes.
C30_ActionAsStrictAsCategory ==
  TransactionAnswered
    => /\ ret.result.predictionResult = "HIGH_RISK"
            => ret.result.recommendedAction \in {"DELAY_AND_MFA", "BLOCK"}
       /\ ret.result.predictionResult = "SUSPICIOUS"
            => ret.result.recommendedAction # "APPROVE"
       /\ ret.result.recommendedAction = "APPROVE"
            => /\ ret.result.predictionResult = "SAFE"
               /\ Len(ret.result.reasonCodes) < 2

\* A HIGH_RISK verdict answered with DELAY_AND_MFA.
C30_Witness ==
  /\ TransactionAnswered
  /\ ret.result.predictionResult = "HIGH_RISK"
  /\ ret.result.recommendedAction = "DELAY_AND_MFA"

\* A SUSPICIOUS verdict answered with FLAG_FOR_REVIEW.
SuspiciousFlagged ==
  /\ TransactionAnswered
  /\ ret.result.predictionResult = "SUSPICIOUS"
  /\ ret.result.recommendedAction = "FLAG_FOR_REVIEW"

\* The calls that have a load of records from the store in progress.
LoadsInProgress == { p \in Loaders : pc[p] \in {"listing", "getting"} }

\* C27: at any time at most one load of records from the store is in
\* progress on a ledger instance, whatever mix of Query, Analytics,
\* getAllRecords and construction-time load is running.
C27_OneLoadAtATime == Cardinality(LoadsInProgress) <= 1

\* What does hold: at most one load started by syncWithS3 is in progress;
\* the only load that can run beside it is the constructor's.
OneGuardedLoadAtATime == Cardinality(LoadsInProgress \ {Ctor}) <= 1

\* The readers whose guarded resync is in flight.
GuardedLoads == LoadsInProgress \ {Ctor}

\* C28: the resync guard is never left stuck: when the store call of a
\* guarded resync returns, with records or with an error, the guard is
\* cleared; so the guard is set only while such a resync is in flight, and
\* a read that arrives when none is in flight starts a fresh one.
C28_GuardNeverStuck ==
  [][/\ \A r \in Readers :
          (r \in GuardedLoads /\ pc'[r] = "idle") => ~s3SyncInProgress'
     /\ s3SyncInProgress' <=> GuardedLoads' # {}
     /\ (IsRead' /\ ~ret'.synced) => GuardedLoads # {}]_vars

\* A guarded resync whose store call failed has returned and the guard is
\* clear.
C28_Witness ==
  IsRead /\ ret.synced /\ ret.loadFailed /\ ~s3SyncInProgress

\* After that a read starts a fresh resync.
FreshResyncStarted ==
  \E r \in Readers : r \in GuardedLoads /\ Len(fraudRecords) > 0
                     /\ s3SyncInProgress /\ pc[Ctor] = "done"

\* The records the instance's own submissions appended whose PutObject is
\* still in flight, and those the store does not hold (the upload failed or
\* has not settled).
InFlight == { rec[s] : s \in { t \in Submitters : pc[t] = "uploading" } }

NotStored(r) == r.fraudId \notin StoreIds

HashProvided(q, r) == \E f \in Provided(q) : r[f] = q[f]

Includes(records, r) == \E j \in 1..Len(records) : records[j] = r

\* C29: read-your-writes.  A record a submission has appended stays in the
\* working set at its position through every step (its upload in flight,
\* settled or failed; loads succeeding, failing or skipped), and every Query
\* answered provides found = true and includes each record of the working
\* set that carries one of the hashes the Query provides.
C29_ReadYourWrites ==
  [][/\ \A i \in 1..Len(fraudRecords) :
          Len(fraudRecords') >= i /\ fraudRecords'[i] = fraudRecords[i]
     /\ \A r \in InFlight' : InWorkingSet(r)'
     /\ (ret'.kind = "query" /\ ~ret'.rejected) =>
          \A i \in 1..Len(fraudRecords') :
            HashProvided(ret'.qreq, fraudRecords'[i]) =>
              /\ ret'.query.found
              /\ Includes(ret'.query.fraudRecords, fraudRecords'[i])]_vars

\* A Query answered after a load, found = true, including a record of this
\* instance whose upload is still in flight and that the store does not hold.
C29_Witness ==
  /\ ret.kind = "query" /\ ~ret.rejected /\ ret.synced /\ ~ret.loadFailed
  /\ ret.query.found
  /\ \E r \in InFlight :
       /\ NotStored(r) /\ HashProvided(ret.qreq, r)
       /\ Includes(ret.query.fraudRecords, r)

\* The same for a record whose upload has failed for good, answered by a
\* Query that skipped its resync.
FailedUploadStillFound ==
  /\ ret.kind = "query" /\ ~ret.rejected /\ ~ret.synced
  /\ ret.query.found
  /\ \E i \in 1..Len(fraudRecords) :
       /\ fraudRecords[i].fraudId \notin ExtIds
       /\ NotStored(fraudRecords[i]) /\ fraudRecords[i] \notin InFlight
       /\ Includes(ret.query.fraudRecords, fraudRecords[i])

====
